---- MODULE Spec2Model ----
(***************************************************************************)
(* shortuuid (src/shortuuid/main.py): the base-N codec, the ShortUUID      *)
(* class and the module-level instance.                                    *)
(*                                                                         *)
(* Representation.  A character is its code point; a str and a list of     *)
(* one-character strings are both sequences of code points.  None is the   *)
(* empty sequence and a present optional value v is <<v>>.  A Python int   *)
(* is an Int.  The UUID width (128 bits in the source) is UuidBits, so     *)
(* that every UUID value can be enumerated; math.log / math.ceil are       *)
(* taken at their exact real value.                                        *)
(***************************************************************************)
EXTENDS Integers, Sequences, FiniteSets, TLC

\* ------------------------------------------------------------------ bounds
\* Width of a UUID's integer (uuid.int); 2**128 in set_alphabet.
UuidBits == 6
\* Callers draw alphabet symbols from the code points '0', '1', ...
NumSymbols == 3
\* Longest alphabet argument handed to the constructor or set_alphabet.
MaxInputLen == 3
\* Longest freely chosen string handed to decode.
MaxStrLen == 2
\* Largest explicit pad_length (the smallest is -1).
MaxPad == 2
\* Largest explicit length handed to random().
MaxRandom == 2
\* The random source returns one of the MaxDraw lowest or highest indices.
MaxDraw == 2

\* ------------------------------------------------------------ python bits
None == <<>>
Some(v) == <<v>>

Range(s) == {s[i] : i \in DOMAIN s}

Max(a, b) == IF a >= b THEN a ELSE b

RECURSIVE Pow(_, _)
Pow(b, e) == IF e = 0 THEN 1 ELSE b * Pow(b, e - 1)

\* s[::-1]
Reverse(s) == [i \in 1..Len(s) |-> s[Len(s) + 1 - i]]

\* c * n for a one-character string c
Repeat(c, n) == [i \in 1..n |-> c]

\* "".join(list): the one-character strings of list, concatenated
join(list) == [i \in 1..Len(list) |-> list[i]]

\* the k-th smallest element of a set of integers
Kth(S, k) == CHOOSE x \in S : Cardinality({y \in S : y <= x}) = k

\* de-duplication that keeps each key's last occurrence instead of its first
dict_fromkeys_last(alphabet) ==
    LET last == {i \in DOMAIN alphabet :
                    \A j \in (i + 1)..Len(alphabet) : alphabet[j] # alphabet[i]}
    IN [k \in 1..Cardinality(last) |-> alphabet[Kth(last, k)]]

\* list(dict.fromkeys(alphabet)): each key once, in first-insertion order
dict_fromkeys(alphabet) ==
    LET first == {i \in DOMAIN alphabet : \A j \in 1..(i - 1) : alphabet[j] # alphabet[i]}
    IN [k \in 1..Cardinality(first) |-> alphabet[Kth(first, k)]]

\* set(alphabet)
set(alphabet) == Range(alphabet)

\* list(sorted(S)): ascending code points
sorted(S) == [k \in 1..Cardinality(S) |-> Kth(S, k)]

\* {char: idx for idx, char in enumerate(alphabet)}: a later index overwrites
enumerate_index(alphabet) ==
    [c \in Range(alphabet) |->
        (CHOOSE i \in DOMAIN alphabet :
            alphabet[i] = c /\ \A j \in DOMAIN alphabet : j > i => alphabet[j] # c) - 1]

\* int(math.ceil(math.log(x, base))) for x >= 1, base >= 2
RECURSIVE ceil_log_from(_, _, _, _)
ceil_log_from(x, base, l, p) ==
    IF p >= x THEN l ELSE ceil_log_from(x, base, l + 1, p * base)

ceil_log(x, base) == ceil_log_from(x, base, 0, 1)

\* 2**128
UuidRange == Pow(2, UuidBits)

\* "23456789ABCDEFGHJKLMNPQRSTUVWXYZabcdefghijkmnopqrstuvwxyz"
DEFAULT_ALPHABET ==
    [i \in 1..8 |-> 49 + i] \o [i \in 1..8 |-> 64 + i] \o [i \in 1..5 |-> 73 + i]
    \o [i \in 1..11 |-> 79 + i] \o [i \in 1..11 |-> 96 + i] \o [i \in 1..14 |-> 108 + i]

\* ------------------------------------------------------------------ codec
\* What a call gives back: the exception raised ("none": it returned), the
\* character an error message names, and the returned str / int.
Returned == [raised |-> "none", msg |-> "", char |-> <<>>, out |-> <<>>, val |-> 0]
Raise(kind, msg, char) == [Returned EXCEPT !.raised = kind, !.msg = msg, !.char = char]
ReturnStr(s) == [Returned EXCEPT !.out = s]
ReturnInt(n) == [Returned EXCEPT !.val = n]

\* while number: number, digit = divmod(number, alpha_len); output += alphabet[digit]
RECURSIVE int_to_string_loop(_, _, _)
int_to_string_loop(number, alphabet, output) ==
    IF number = 0 THEN output
    ELSE int_to_string_loop(number \div Len(alphabet), alphabet,
                            Append(output, alphabet[(number % Len(alphabet)) + 1]))

\* the symbol int_to_string pads with
PadSymbol(alphabet) == alphabet[1]

\* if padding: ...
Truthy(padding) == padding # None /\ padding[1] # 0

\* int_to_string without the final reversal: least significant digit first
int_to_string_lsb(number, alphabet, padding) ==
    LET output == int_to_string_loop(number, alphabet, <<>>)
    IN IF Truthy(padding)
       THEN output \o Repeat(PadSymbol(alphabet), Max(padding[1] - Len(output), 0))
       ELSE output

\* int_to_string cutting the output down to the pad length
int_to_string_cut(number, alphabet, padding) ==
    LET output == int_to_string_loop(number, alphabet, <<>>)
        padded == IF Truthy(padding)
                  THEN SubSeq(output \o Repeat(PadSymbol(alphabet),
                                               Max(padding[1] - Len(output), 0)),
                              1, Max(padding[1], 0))
                  ELSE output
    IN Reverse(padded)

int_to_string(number, alphabet, padding) ==
    LET output == int_to_string_loop(number, alphabet, <<>>)
        padded == IF Truthy(padding)
                  THEN output \o Repeat(PadSymbol(alphabet),
                                        Max(padding[1] - Len(output), 0))
                  ELSE output
    IN Reverse(padded)

\* the decoding loop with alphabet_index.get(char, 0): an unknown symbol counts as 0
RECURSIVE string_to_int_loop_get(_, _, _, _, _)
string_to_int_loop_get(string, alpha_len, index, i, number) ==
    IF i > Len(string) THEN ReturnInt(number)
    ELSE string_to_int_loop_get(string, alpha_len, index, i + 1,
             number * alpha_len
             + (IF string[i] \in DOMAIN index THEN index[string[i]] ELSE 0))

\* for char in string: number = number * alpha_len + alphabet_index[char]
RECURSIVE string_to_int_loop(_, _, _, _, _)
string_to_int_loop(string, alpha_len, index, i, number) ==
    IF i > Len(string) THEN ReturnInt(number)
    ELSE IF string[i] \notin DOMAIN index
         THEN Raise("ValueError", "is not in alphabet", <<string[i]>>)
         ELSE string_to_int_loop(string, alpha_len, index, i + 1,
                                 number * alpha_len + index[string[i]])

string_to_int(string, alphabet, alphabet_index) ==
    LET index == IF alphabet_index = None THEN enumerate_index(alphabet)
                 ELSE alphabet_index[1]
    IN string_to_int_loop(string, Len(alphabet), index, 1, 0)

\* uuid.UUID(int=n): the standard library rejects an int outside [0, 2**128)
UUID_from_int(n) ==
    IF 0 <= n /\ n < UuidRange THEN ReturnInt(n)
    ELSE Raise("ValueError", "int is out of range", <<>>)

\* ------------------------------------------------------------- the class
\* new_alphabet of set_alphabet
new_alphabet(alphabet, dont_sort_alphabet) ==
    IF dont_sort_alphabet THEN dict_fromkeys(alphabet)
    ELSE sorted(set(alphabet))

\* the rejection test off by one
TooFewSymbols_2(new) == Len(new) <= 2

\* if len(new_alphabet) <= 1: raise InvalidAlphabetError
TooFewSymbols(new) == Len(new) <= 1

\* the default length truncated instead of rounded up: int(math.log(...))
default_length_floor(alpha_len) == ceil_log(UuidRange + 1, alpha_len) - 1

\* self._length = int(math.ceil(math.log(2**128, self._alpha_len)))
default_length(alpha_len) == ceil_log(UuidRange, alpha_len)

\* the index map built from the sorted symbols whatever the mode
Assigned_sortedindex(new) ==
    [alphabet |-> new,
     alphabet_str |-> join(new),
     alpha_len |-> Len(new),
     alphabet_index |-> enumerate_index(sorted(set(new))),
     length |-> default_length(Len(new))]

\* The same default length at the source's own width, 2**128, which no Int of the
\* checker holds: a Python int as little-endian limbs.
FullBits == 128
LimbBits == 16
LimbBase == Pow(2, LimbBits)

\* n * d for a limb sequence n and a small d
RECURSIVE BigTimesFrom(_, _, _, _)
BigTimesFrom(n, d, i, carry) ==
    IF i > Len(n) THEN (IF carry = 0 THEN <<>> ELSE <<carry>>)
    ELSE LET cur == n[i] * d + carry
         IN <<cur % LimbBase>> \o BigTimesFrom(n, d, i + 1, cur \div LimbBase)

BigTimes(n, d) == BigTimesFrom(n, d, 1, 0)

\* 2**bits
BigPowerOfTwo(bits) ==
    [i \in 1..(bits \div LimbBits + 1) |->
        IF i = bits \div LimbBits + 1 THEN Pow(2, bits % LimbBits) ELSE 0]

\* a >= b, neither with a leading zero limb
BigGeq(a, b) ==
    \/ Len(a) > Len(b)
    \/ /\ Len(a) = Len(b)
       /\ \/ a = b
          \/ LET k == CHOOSE j \in DOMAIN a :
                         a[j] # b[j] /\ \A m \in DOMAIN a : m > j => a[m] = b[m]
             IN a[k] > b[k]

RECURSIVE big_ceil_log_from(_, _, _, _)
big_ceil_log_from(x, base, l, p) ==
    IF BigGeq(p, x) THEN l ELSE big_ceil_log_from(x, base, l + 1, BigTimes(p, base))

\* int(math.ceil(math.log(2**128, alpha_len)))
default_length_128(alpha_len) == big_ceil_log_from(BigPowerOfTwo(FullBits), alpha_len, 0, <<1>>)

\* The object after set_alphabet's five assignments.
Assigned(new) ==
    [alphabet |-> new,
     alphabet_str |-> join(new),
     alpha_len |-> Len(new),
     alphabet_index |-> enumerate_index(new),
     length |-> default_length(Len(new))]

\* set_alphabet: what it raises and the object it leaves
set_alphabet(self, alphabet, dont_sort_alphabet) ==
    LET new == new_alphabet(alphabet, dont_sort_alphabet)
    IN IF TooFewSymbols(new)
       THEN [res |-> Raise("InvalidAlphabetError", "more than one unique symbols required", <<>>),
             self |-> self]
       ELSE [res |-> Returned, self |-> Assigned(new)]

\* __init__: alphabet None means DEFAULT_ALPHABET; the object exists only if
\* set_alphabet returned
init(alphabet, dont_sort_alphabet) ==
    LET r == set_alphabet(None,
                          IF alphabet = None THEN DEFAULT_ALPHABET ELSE alphabet[1],
                          dont_sort_alphabet)
    IN IF r.res.raised = "none" THEN [res |-> r.res, self |-> Some(r.self)]
       ELSE [res |-> r.res, self |-> None]

\* An argument of any type: a UUID (its int), a str, or something else.
AUuid(n) == [type |-> "UUID", int |-> n, str |-> <<>>]
AStr(s) == [type |-> "str", int |-> 0, str |-> s]
AInt(n) == [type |-> "int", int |-> n, str |-> <<>>]

\* if pad_length is None: pad_length = self._length
DefaultPad(self, pad_length) == IF pad_length = None THEN Some(self.length) ELSE pad_length

encode(self, uuid, pad_length) ==
    IF uuid.type # "UUID"
    THEN Raise("InvalidInputError", "Input uuid must be a UUID object.", <<>>)
    ELSE ReturnStr(int_to_string(uuid.int, self.alphabet, DefaultPad(self, pad_length)))

decode(self, string, legacy) ==
    IF string.type # "str"
    THEN Raise("InvalidInputError", "Input string must be a str.", <<>>)
    ELSE LET s == IF legacy THEN Reverse(string.str) ELSE string.str
             n == string_to_int(s, self.alphabet, Some(self.alphabet_index))
         IN IF n.raised # "none" THEN n ELSE UUID_from_int(n.val)

\* name.lower().startswith(("http://", "https://")), on the names callers pass
Names == {"http://www.example.com/", "HTTP://www.example.com/", "example.com/"}
IsHttpName(name) == name \in {"http://www.example.com/", "HTTP://www.example.com/"}

\* uuid(): u is what uuid4() or uuid5(namespace, name) produced
uuid(self, name, pad_length, u) ==
    LET ns == IF name = None THEN "uuid4"
              ELSE IF IsHttpName(name[1]) THEN "NAMESPACE_URL" ELSE "NAMESPACE_DNS"
    IN [encode(self, AUuid(u), DefaultPad(self, pad_length)) EXCEPT !.msg = ns]

\* the default taken for every falsy length: if not length
RandomLength_falsy(self, length) ==
    IF length = None \/ length[1] = 0 THEN self.length ELSE length[1]

\* if length is None: length = self._length
RandomLength(self, length) == IF length = None THEN self.length ELSE length[1]

\* range(length)
range(n) == 1..n

\* secrets.choice(seq) is seq[k] for the k the random source draws
RandBelow(n) == {k \in 0..(n - 1) : k < MaxDraw \/ k >= n - MaxDraw}

DrawSeqs(self, length) == [range(RandomLength(self, length)) -> RandBelow(Len(self.alphabet))]

random(self, length, draws) ==
    ReturnStr(join([k \in range(RandomLength(self, length)) |-> self.alphabet[draws[k] + 1]]))

get_alphabet(self) == ReturnStr(self.alphabet_str)

\* int(math.ceil(math.log(256) / math.log(alpha_len) * num_bytes)); the width is
\* given in bits (8 * num_bytes), 128 by default
encoded_length(self, num_bits) == ReturnInt(ceil_log(Pow(2, num_bits), self.alpha_len))

\* ------------------------------------------------------------------ state
\* _global_instance is the module's own object; su1 is a caller's.
Instances == {"_global_instance", "su1"}

VARIABLES
    inst,    \* inst[i]: None, or Some(object) with the five slots
    call,    \* the call being returned from (op "none": no call)
    ret,     \* what that call raised or returned
    wpc,     \* writer thread: the line of set_alphabet it is about to run
    wnew,    \* writer thread: its local new_alphabet
    wold,    \* history: the alphabet the object had when the writer last began
    rpc,     \* reader thread: where it is in encode / decode
    rloc     \* reader thread: its locals (what it read of self so far)

vars == <<inst, call, ret, wpc, wnew, wold, rpc, rloc>>

NoCall ==
    [op |-> "none", inst |-> "", alphabet |-> None, dont_sort |-> FALSE,
     arg |-> AInt(0), pad_length |-> None, legacy |-> FALSE, name |-> None,
     length |-> None, draws |-> <<>>]

NoLocals == [op |-> "none", arg |-> AInt(0), legacy |-> FALSE, pad_length |-> None,
             alphabet |-> <<>>]

\* _global_instance = ShortUUID()
Init ==
    /\ inst = [i \in Instances |->
                 IF i = "_global_instance" THEN init(None, FALSE).self ELSE None]
    /\ call = NoCall
    /\ ret = Returned
    /\ wpc = "idle"
    /\ wnew = <<>>
    /\ wold = DEFAULT_ALPHABET
    /\ rpc = "idle"
    /\ rloc = NoLocals

threads == <<wpc, wnew, wold, rpc, rloc>>

Idle == call.op = "none" /\ wpc = "idle" /\ rpc = "idle"
Alive(i) == inst[i] # None
Self(i) == inst[i][1]

\* ---------------------------------------------------------------- inputs
Symbols == 48..(47 + NumSymbols)
\* 'z': in DEFAULT_ALPHABET (its last symbol), outside every caller's alphabet
OtherSymbol == 122
StringsUpTo(S, n) == UNION {[1..k -> S] : k \in 0..n}
AlphabetInputs == StringsUpTo(Symbols, MaxInputLen)
UUIDs == 0..(UuidRange - 1)
PadLengths == {None} \cup {Some(p) : p \in (-1)..MaxPad}
RandomLengths == {None} \cup {Some(n) : n \in (-1)..MaxRandom}
\* decode is handed short strings over every symbol, runs of one symbol up to one
\* longer than the default length, what encode returned, and a non-str
DecodeInputs(self) ==
    {AStr(s) : s \in StringsUpTo(Symbols \cup {OtherSymbol}, MaxStrLen)}
    \cup {AStr(Repeat(c, k)) : c \in Range(self.alphabet), k \in 0..(self.length + 1)}
    \cup {AStr(encode(self, AUuid(u), None).out) : u \in UUIDs}
    \cup {AInt(42)}
EncodeInputs == {AUuid(u) : u \in UUIDs} \cup {AInt(42), AStr(<<>>)}

\* ------------------------------------------------------- sequential calls
\* su = ShortUUID(alphabet, dont_sort_alphabet=...): binds i when it returns
Construct(i, alphabet, dont_sort) ==
    /\ Idle
    /\ LET r == init(alphabet, dont_sort)
       IN /\ inst' = IF r.res.raised = "none" THEN [inst EXCEPT ![i] = r.self] ELSE inst
          /\ ret' = r.res
    /\ call' = [NoCall EXCEPT !.op = "init", !.inst = i, !.alphabet = alphabet,
                              !.dont_sort = dont_sort]
    /\ UNCHANGED threads

SetAlphabet(i, alphabet, dont_sort) ==
    /\ Idle /\ Alive(i)
    /\ LET r == set_alphabet(Self(i), alphabet, dont_sort)
       IN /\ inst' = [inst EXCEPT ![i] = Some(r.self)]
          /\ ret' = r.res
    /\ call' = [NoCall EXCEPT !.op = "set_alphabet", !.inst = i,
                              !.alphabet = Some(alphabet), !.dont_sort = dont_sort]
    /\ UNCHANGED threads

Encode(i, arg, pad_length) ==
    /\ Idle /\ Alive(i)
    /\ ret' = encode(Self(i), arg, pad_length)
    /\ call' = [NoCall EXCEPT !.op = "encode", !.inst = i, !.arg = arg,
                              !.pad_length = pad_length]
    /\ UNCHANGED <<inst, threads>>

Decode(i, arg, legacy) ==
    /\ Idle /\ Alive(i)
    /\ ret' = decode(Self(i), arg, legacy)
    /\ call' = [NoCall EXCEPT !.op = "decode", !.inst = i, !.arg = arg, !.legacy = legacy]
    /\ UNCHANGED <<inst, threads>>

Uuid(i, name, pad_length, u) ==
    /\ Idle /\ Alive(i)
    /\ ret' = uuid(Self(i), name, pad_length, u)
    /\ call' = [NoCall EXCEPT !.op = "uuid", !.inst = i, !.name = name,
                              !.pad_length = pad_length, !.arg = AUuid(u)]
    /\ UNCHANGED <<inst, threads>>

Random(i, length, draws) ==
    /\ Idle /\ Alive(i)
    /\ ret' = random(Self(i), length, draws)
    /\ call' = [NoCall EXCEPT !.op = "random", !.inst = i, !.length = length,
                              !.draws = draws]
    /\ UNCHANGED <<inst, threads>>

GetAlphabet(i) ==
    /\ Idle /\ Alive(i)
    /\ ret' = get_alphabet(Self(i))
    /\ call' = [NoCall EXCEPT !.op = "get_alphabet", !.inst = i]
    /\ UNCHANGED <<inst, threads>>

EncodedLength(i, num_bits) ==
    /\ Idle /\ Alive(i)
    /\ ret' = encoded_length(Self(i), num_bits)
    /\ call' = [NoCall EXCEPT !.op = "encoded_length", !.inst = i, !.arg = AInt(num_bits)]
    /\ UNCHANGED <<inst, threads>>

\* shortuuid.main.int_to_string(number, su._alphabet, padding), called directly
IntToString(i, number, padding) ==
    /\ Idle /\ Alive(i)
    /\ ret' = ReturnStr(int_to_string(number, Self(i).alphabet, padding))
    /\ call' = [NoCall EXCEPT !.op = "int_to_string", !.inst = i, !.arg = AInt(number),
                              !.pad_length = padding]
    /\ UNCHANGED <<inst, threads>>

\* the caller takes the result and goes on
Return ==
    /\ call.op # "none"
    /\ call' = NoCall
    /\ ret' = Returned
    /\ UNCHANGED <<inst, threads>>

\* One caller, one thread: _global_instance keeps the default alphabet and su1 is
\* constructed and reconfigured at will.
CallConstruct ==
    Idle /\ \E a \in {None} \cup {Some(x) : x \in AlphabetInputs}, d \in BOOLEAN :
                Construct("su1", a, d)

CallSetAlphabet ==
    Idle /\ \E a \in AlphabetInputs, d \in BOOLEAN : SetAlphabet("su1", a, d)

CallEncode ==
    Idle /\ \E i \in Instances, arg \in EncodeInputs, p \in PadLengths : Encode(i, arg, p)

CallDecode ==
    Idle /\ \E i \in {j \in Instances : Alive(j)}, l \in BOOLEAN :
                \E arg \in DecodeInputs(Self(i)) : Decode(i, arg, l)

CallUuid ==
    Idle /\ \E i \in Instances, n \in {None} \cup {Some(x) : x \in Names},
               p \in {None, Some(MaxPad)}, u \in UUIDs : Uuid(i, n, p, u)

CallRandom ==
    Idle /\ \E i \in {j \in Instances : Alive(j)}, n \in RandomLengths :
                \E dr \in DrawSeqs(Self(i), n) : Random(i, n, dr)

CallGetAlphabet == Idle /\ \E i \in Instances : GetAlphabet(i)

CallEncodedLength ==
    Idle /\ \E i \in Instances, b \in {UuidBits, UuidBits \div 2} : EncodedLength(i, b)

\* any int from 0 to one past the largest UUID
CallIntToString ==
    Idle /\ \E i \in Instances, n \in 0..UuidRange, p \in PadLengths : IntToString(i, n, p)

Next ==
    \/ CallConstruct
    \/ CallSetAlphabet
    \/ CallEncode
    \/ CallDecode
    \/ CallUuid
    \/ CallRandom
    \/ CallGetAlphabet
    \/ CallEncodedLength
    \/ CallIntToString
    \/ Return

Spec == Init /\ [][Next]_vars

\* ------------------------------------------------------- several objects
\* Both objects are reconfigured: alphabets over all but the last caller symbol,
\* one shorter than MaxInputLen, and the default alphabet put back.
InstInputs ==
    StringsUpTo(48..(46 + NumSymbols), MaxInputLen - 1) \cup {DEFAULT_ALPHABET}

InstConstruct ==
    Idle /\ \E a \in {None} \cup {Some(x) : x \in InstInputs}, d \in BOOLEAN :
                Construct("su1", a, d)

InstSetAlphabet ==
    Idle /\ \E i \in Instances, a \in InstInputs, d \in BOOLEAN : SetAlphabet(i, a, d)

NextInstances ==
    \/ InstConstruct
    \/ InstSetAlphabet
    \/ CallGetAlphabet
    \/ Return

SpecInstances == Init /\ [][NextInstances]_vars

\* ------------------------------------------------------------ two threads
\* One thread runs set_alphabet on _global_instance, one line at a time, while
\* another runs encode or decode on it; the interpreter switches threads between
\* any two attribute accesses.
Shared == "_global_instance"
SetSlot(slot, v) == inst' = [inst EXCEPT ![Shared] = Some([Self(Shared) EXCEPT ![slot] = v])]

\* lines 137-139: new_alphabet, and the raise that leaves the object alone
WBegin(alphabet, dont_sort) ==
    /\ wpc = "idle"
    /\ LET new == new_alphabet(alphabet, dont_sort)
       IN IF TooFewSymbols(new)
          THEN UNCHANGED <<wpc, wnew, wold>>
          ELSE wpc' = "140" /\ wnew' = new /\ wold' = Self(Shared).alphabet
    /\ UNCHANGED <<inst, call, ret, rpc, rloc>>

\* self._alphabet = new_alphabet
W140 ==
    /\ wpc = "140"
    /\ SetSlot("alphabet", wnew)
    /\ wpc' = "141"
    /\ UNCHANGED <<call, ret, wnew, wold, rpc, rloc>>

\* self._alphabet_str = "".join(new_alphabet)
W141 ==
    /\ wpc = "141"
    /\ SetSlot("alphabet_str", join(wnew))
    /\ wpc' = "142"
    /\ UNCHANGED <<call, ret, wnew, wold, rpc, rloc>>

\* self._alpha_len = len(self._alphabet)
W142 ==
    /\ wpc = "142"
    /\ SetSlot("alpha_len", Len(Self(Shared).alphabet))
    /\ wpc' = "143"
    /\ UNCHANGED <<call, ret, wnew, wold, rpc, rloc>>

\* line 143 leaving the cached index as it was
W143_stale ==
    /\ wpc = "143"
    /\ wpc' = "144"
    /\ UNCHANGED <<inst, call, ret, wnew, wold, rpc, rloc>>

\* self._alphabet_index = {char: idx for idx, char in enumerate(self._alphabet)}
W143 ==
    /\ wpc = "143"
    /\ SetSlot("alphabet_index", enumerate_index(Self(Shared).alphabet))
    /\ wpc' = "144"
    /\ UNCHANGED <<call, ret, wnew, wold, rpc, rloc>>

\* self._length = int(math.ceil(math.log(2**128, self._alpha_len))), and return
W144 ==
    /\ wpc = "144"
    /\ SetSlot("length", default_length(Self(Shared).alpha_len))
    /\ wpc' = "idle"
    /\ wnew' = <<>>
    /\ UNCHANGED <<call, ret, wold, rpc, rloc>>

\* encode(u), lines 83-86: pad_length = self._length
REncodeBegin(u) ==
    /\ rpc = "idle" /\ call.op = "none"
    /\ rpc' = "87"
    /\ rloc' = [NoLocals EXCEPT !.op = "encode", !.arg = AUuid(u),
                                !.pad_length = DefaultPad(Self(Shared), None)]
    /\ UNCHANGED <<inst, call, ret, wpc, wnew, wold>>

\* encode, line 87: int_to_string(uuid.int, self._alphabet, padding=pad_length)
R87 ==
    /\ rpc = "87"
    /\ ret' = ReturnStr(int_to_string(rloc.arg.int, Self(Shared).alphabet, rloc.pad_length))
    /\ call' = [NoCall EXCEPT !.op = "encode", !.inst = Shared, !.arg = rloc.arg,
                              !.alphabet = Some(Self(Shared).alphabet),
                              !.pad_length = rloc.pad_length]
    /\ rpc' = "idle"
    /\ rloc' = NoLocals
    /\ UNCHANGED <<inst, wpc, wnew, wold>>

\* decode(string), lines 99-103 up to the load of self._alphabet
RDecodeBegin(string, legacy) ==
    /\ rpc = "idle" /\ call.op = "none"
    /\ rpc' = "103"
    /\ rloc' = [NoLocals EXCEPT !.op = "decode", !.legacy = legacy,
                                !.arg = AStr(IF legacy THEN Reverse(string) ELSE string),
                                !.alphabet = Self(Shared).alphabet]
    /\ UNCHANGED <<inst, call, ret, wpc, wnew, wold>>

\* decode, line 103: the load of self._alphabet_index, string_to_int, UUID(int=...)
R103 ==
    /\ rpc = "103"
    /\ LET n == string_to_int(rloc.arg.str, rloc.alphabet, Some(Self(Shared).alphabet_index))
       IN ret' = IF n.raised # "none" THEN n ELSE UUID_from_int(n.val)
    /\ call' = [NoCall EXCEPT !.op = "decode", !.inst = Shared, !.arg = rloc.arg,
                              !.alphabet = Some(rloc.alphabet)]
    /\ rpc' = "idle"
    /\ rloc' = NoLocals
    /\ UNCHANGED <<inst, wpc, wnew, wold>>

\* what the threads are handed: "01", "10", "012", "0", and strings over them
ThreadAlphabets == {<<48, 49>>, <<49, 48>>, <<48, 49, 50>>, <<48>>}
ThreadStrings == {<<49, 50>>, <<48, 49>>, <<49>>, <<122>>}
ThreadUUIDs == {0, 1, UuidRange - 1}

WriterBegins == \E a \in ThreadAlphabets, d \in BOOLEAN : WBegin(a, d)
ReaderEncodes == \E u \in ThreadUUIDs : REncodeBegin(u)
ReaderDecodes == \E s \in ThreadStrings, l \in BOOLEAN : RDecodeBegin(s, l)

NextThreads ==
    \/ WriterBegins
    \/ W140 \/ W141 \/ W142 \/ W143 \/ W144
    \/ ReaderEncodes
    \/ R87
    \/ ReaderDecodes
    \/ R103
    \/ Return

SpecThreads == Init /\ [][NextThreads]_vars

\* ----------------------------------------------------------------- claims
\* What the claims speak of, said without the code's own operators.
NoDuplicates(s) == Cardinality(Range(s)) = Len(s)
Ascending(s) == \A j \in 1..(Len(s) - 1) : s[j] < s[j + 1]
\* the digit value of symbol c: its 0-based position in the ordered alphabet
DigitOf(alphabet, c) == (CHOOSE j \in DOMAIN alphabet : alphabet[j] = c) - 1
\* the integer a most-significant-first digit string stands for
RECURSIVE ValueOf(_, _)
ValueOf(alphabet, s) ==
    IF s = <<>> THEN 0
    ELSE ValueOf(alphabet, SubSeq(s, 1, Len(s) - 1)) * Len(alphabet)
         + DigitOf(alphabet, s[Len(s)])
\* the number of base-N digits of n: 0 for n = 0
DigitCount(n, base) ==
    CHOOSE k \in 0..(UuidBits + 1) : n < Pow(base, k) /\ (k = 0 \/ Pow(base, k - 1) <= n)

UuidCall == call.arg.type = "UUID"
CallSelf == Self(call.inst)

\* C1: decode(encode(u)) returns u, for every instance state reached through the
\* constructor and set_alphabet (either mode) and every UUID u, encode padding to
\* the default length.
C1_RoundTrip ==
    (call.op = "encode" /\ UuidCall /\ call.pad_length = None)
        => /\ ret.raised = "none"
           /\ decode(CallSelf, AStr(ret.out), FALSE) = ReturnInt(call.arg.int)

\* C1 witness: the largest UUID encoded by su1 under an order-preserved,
\* non-ascending alphabet, and decoded back.
C1_Witness ==
    /\ call.op = "encode" /\ call.inst = "su1" /\ call.pad_length = None
    /\ call.arg = AUuid(UuidRange - 1)
    /\ ~Ascending(CallSelf.alphabet)
    /\ decode(CallSelf, AStr(ret.out), FALSE).val = UuidRange - 1

\* C2: without an explicit pad_length every encode(u) has the same length, the
\* cached default pad length, which is the smallest L with base^L >= 2^bits and
\* what encoded_length() returns.
C2_FixedWidth ==
    /\ \A i \in Instances : Alive(i) =>
          LET s == Self(i)
          IN /\ s.length = encoded_length(s, UuidBits).val
             /\ Pow(s.alpha_len, s.length) >= UuidRange
             /\ s.length > 0 /\ Pow(s.alpha_len, s.length - 1) < UuidRange
    /\ (call.op = "encode" /\ UuidCall /\ call.pad_length = None)
          => ret.raised = "none" /\ Len(ret.out) = CallSelf.length

\* C2 witness: UUID 0 and a base that is no power of two: the whole output is padding.
C2_Witness ==
    /\ call.op = "encode" /\ call.inst = "su1" /\ call.pad_length = None
    /\ call.arg = AUuid(0)
    /\ CallSelf.alpha_len = 3
    /\ Len(ret.out) = CallSelf.length /\ Len(ret.out) > 0

\* the alphabet argument of the constructor or set_alphabet call being returned from
GivenAlphabet == IF call.alphabet = None THEN DEFAULT_ALPHABET ELSE call.alphabet[1]
ConfigCall == call.op \in {"init", "set_alphabet"}
\* a constructor or set_alphabet call that was handed an alphabet and accepted it
AcceptedConfig == ConfigCall /\ call.alphabet # None /\ ret.raised = "none"

\* s with one more occurrence of c put in after its first p symbols
InsertAt(s, p, c) == SubSeq(s, 1, p) \o <<c>> \o SubSeq(s, p + 1, Len(s))
\* the position of c's first occurrence in s
FirstAt(s, c) == CHOOSE j \in DOMAIN s : s[j] = c /\ \A k \in 1..(j - 1) : s[k] # c
\* A with one duplicate occurrence of one of its symbols added anywhere
WithDuplicate(A) == {InsertAt(A, p, c) : p \in 0..Len(A), c \in Range(A)}
\* ... added somewhere after that symbol's first occurrence
WithLaterDuplicate(A) ==
    UNION {{InsertAt(A, p, c) : p \in FirstAt(A, c)..Len(A)} : c \in Range(A)}

C4_Rejection ==
    /\ ConfigCall =>
          /\ ret.raised \in {"none", "InvalidAlphabetError"}
          /\ ret.raised = "InvalidAlphabetError" <=> Cardinality(Range(GivenAlphabet)) <= 1
    /\ \A i \in Instances : Alive(i) =>
          /\ Len(Self(i).alphabet) >= 2
          /\ NoDuplicates(Self(i).alphabet)
          /\ Self(i).alpha_len >= 2
    /\ call.op \in {"encode", "decode", "uuid", "random"}
          => ret.raised # "InvalidAlphabetError"

\* C4 witness: set_alphabet("111", dont_sort_alphabet=True) on a live object raised.
C4_Witness ==
    /\ call.op = "set_alphabet" /\ call.dont_sort
    /\ call.alphabet = Some(<<49, 49, 49>>)
    /\ ret.raised = "InvalidAlphabetError"
    /\ Alive(call.inst)

\* the string decode scans: reversed when legacy
Scanned == IF call.legacy THEN Reverse(call.arg.str) ELSE call.arg.str
\* the positions of Scanned whose symbol is outside the object's alphabet
Outside == {k \in DOMAIN Scanned : Scanned[k] \notin Range(CallSelf.alphabet)}
StrDecode == call.op = "decode" /\ call.arg.type = "str"

\* C5: decode of a str with a symbol outside the alphabet raises the error that
\* names the first such symbol in scanning order, and returns no UUID; a str of
\* alphabet symbols only never raises that error.
C5_DecodeRejection ==
    StrDecode =>
        IF Outside # {}
        THEN /\ ret.raised = "ValueError" /\ ret.msg = "is not in alphabet"
             /\ ret.char = <<Scanned[Kth(Outside, 1)]>>
        ELSE ret.msg # "is not in alphabet" /\ ret.char = <<>>

\* C5 witness: legacy decode of "2z" by an object whose alphabet has neither:
\* the scan starts at 'z'.
C5_Witness ==
    /\ StrDecode /\ call.legacy /\ call.inst = "su1"
    /\ call.arg.str = <<50, 122>>
    /\ ret.raised = "ValueError" /\ ret.char = <<122>>

\* C6 as stated (decode's docstring): a str with an illegal character, or one too
\* long (its integer does not fit the UUID width), raises InvalidInputError, and
\* nothing else escapes decode.
C6_DocstringError ==
    StrDecode =>
        /\ ret.raised \in {"none", "InvalidInputError"}
        /\ (Outside # {} \/ ValueOf(CallSelf.alphabet, Scanned) >= UuidRange)
              => ret.raised = "InvalidInputError"

\* the padding int_to_string was handed: encode passes the default length for None
GivenPadding ==
    IF call.op = "encode" THEN DefaultPad(CallSelf, call.pad_length) ELSE call.pad_length
CodecCall ==
    \/ call.op = "int_to_string"
    \/ call.op = "encode" /\ UuidCall

C7_WitnessLong ==
    /\ call.op = "int_to_string" /\ call.pad_length = Some(1)
    /\ Len(ret.out) > 1

\* C8: random(n), n >= 0, returns exactly n symbols of the object's alphabet,
\* whatever the random source draws, and random() returns the default pad length
\* of them, which for the 57 default symbols and 128 bits is 22.
C8_Random ==
    /\ (call.op = "random" /\ (call.length = None \/ call.length[1] >= 0)) =>
          /\ ret.raised = "none"
          /\ Len(ret.out) = IF call.length = None THEN CallSelf.length ELSE call.length[1]
          /\ Range(ret.out) \subseteq Range(CallSelf.alphabet)
    /\ (call.op = "random" /\ call.length = None /\ CallSelf.alphabet = DEFAULT_ALPHABET) =>
          /\ CallSelf.alpha_len = 57
          /\ default_length_128(CallSelf.alpha_len) = 22

\* C8 witness: random(0) on su1 returned the empty string.
C8_Witness ==
    /\ call.op = "random" /\ call.inst = "su1" /\ call.length = Some(0)
    /\ ret.out = <<>> /\ ret.raised = "none"

\* seq is the canonical alphabet of argument A: A's symbols, each once, ascending
\* in sorted mode and in order of first occurrence otherwise
CanonicalOf(seq, A, dont_sort) ==
    /\ NoDuplicates(seq)
    /\ Range(seq) = Range(A)
    /\ IF dont_sort
       THEN \A j \in 1..(Len(seq) - 1) : FirstAt(A, seq[j]) < FirstAt(A, seq[j + 1])
       ELSE Ascending(seq)
\* index is the exact inverse of seq: symbol -> 0-based position
InverseOf(index, seq) ==
    /\ DOMAIN index = Range(seq)
    /\ \A j \in DOMAIN seq : index[seq[j]] = j - 1
\* l is the smallest length with base^l >= 2^bits
SmallestLength(l, base) ==
    l > 0 /\ Pow(base, l) >= UuidRange /\ Pow(base, l - 1) < UuidRange
\* the five slots of an object all describe its ordered sequence
Consistent(obj) ==
    /\ Len(obj.alphabet) >= 2 /\ NoDuplicates(obj.alphabet)
    /\ obj.alphabet_str = obj.alphabet
    /\ obj.alpha_len = Len(obj.alphabet)
    /\ InverseOf(obj.alphabet_index, obj.alphabet)
    /\ SmallestLength(obj.length, Len(obj.alphabet))
DerivedFrom(obj, A, dont_sort) == CanonicalOf(obj.alphabet, A, dont_sort) /\ Consistent(obj)

\* a step of the sequential machine, as C10 has it
ConfigStep ==
    /\ \A i \in Instances :
          inst'[i] # inst[i] =>
             ConfigCall' /\ call.op = "none" /\ call'.inst = i /\ ret'.raised = "none"
    /\ (ConfigCall' /\ call.op = "none") =>
          IF ret'.raised = "none"
          THEN /\ inst'[call'.inst] # None
               /\ DerivedFrom(inst'[call'.inst][1], GivenAlphabet', call'.dont_sort)
          ELSE ret'.raised = "InvalidAlphabetError" /\ inst' = inst

\* C10: in sequential use every object's ordered sequence, get_alphabet() string,
\* base, symbol-to-index map and default pad length are those of the alphabet of
\* its most recent accepted constructor or set_alphabet call; a rejected call
\* changes nothing, and a call on one object changes no other.
C10_StateConsistency ==
    /\ [](\A i \in Instances : Alive(i) => Consistent(Self(i)))
    /\ [](AcceptedConfig => DerivedFrom(CallSelf, GivenAlphabet, call.dont_sort))
    /\ [][ConfigStep]_vars

\* C10 witness: su1 holds "10" (order kept), _global_instance holds "01", and
\* the last call, set_alphabet("1") on su1, was rejected.
C10_Witness ==
    /\ call.op = "set_alphabet" /\ call.inst = "su1" /\ ret.raised = "InvalidAlphabetError"
    /\ Alive("su1") /\ Self("su1").alphabet = <<49, 48>>
    /\ Self("_global_instance").alphabet = <<48, 49>>
    /\ Consistent(Self("su1")) /\ Consistent(Self("_global_instance"))

\* The alphabet before the writer's latest set_alphabet and the one it installs.
OldAlphabet == wold
NewAlphabet == IF wpc = "idle" THEN Self(Shared).alphabet ELSE wnew
Slots == {"alphabet", "alphabet_str", "alpha_len", "alphabet_index", "length"}
\* what the reader's call returns from an object wholly configured with alphabet X
Expected(X, c) ==
    IF c.op = "encode" THEN encode(Assigned(X), c.arg, None)
    ELSE decode(Assigned(X), c.arg, FALSE)
\* the reader is about to finish with slots of two different alphabets
Torn ==
    \/ rpc = "103" /\ ~InverseOf(Self(Shared).alphabet_index, rloc.alphabet)
    \/ rpc = "87" /\ ~SmallestLength(rloc.pad_length[1], Len(Self(Shared).alphabet))
ThreadStep ==
    /\ Cardinality({f \in Slots : inst'[Shared][1][f] # inst[Shared][1][f]}) <= 1
    /\ (rpc # "idle" /\ rpc' = "idle" /\ ~Torn) =>
          \/ ret' = Expected(OldAlphabet, call')
          \/ ret' = Expected(NewAlphabet, call')

\* C9: set_alphabet replaces the slots one assignment at a time: between two
\* calls of it the object is consistent, during one a concurrent encode or decode
\* can pair the sequence of one alphabet with the index map or pad length of the
\* other, and only such a pairing makes it return what is correct for neither
\* the old nor the new alphabet.
C9_NotAtomic ==
    /\ [](wpc = "idle" => Consistent(Self(Shared)))
    /\ [][ThreadStep]_vars

\* C9 witness: decode returned a UUID computed from the old sequence and the new
\* index map, which is the decoding under neither alphabet.
C9_Witness ==
    /\ call.op = "decode" /\ ret.raised = "none"
    /\ OldAlphabet # NewAlphabet
    /\ call.alphabet = Some(OldAlphabet)
    /\ ret = UUID_from_int(string_to_int(call.arg.str, OldAlphabet,
                                         Some(enumerate_index(NewAlphabet))).val)
    /\ ret # Expected(OldAlphabet, call)
    /\ ret # Expected(NewAlphabet, call)

\* C9, the pad length: encode returned the new alphabet's digits padded to the
\* old alphabet's default length.
C9_WitnessEncode ==
    /\ call.op = "encode" /\ call.alphabet = Some(NewAlphabet)
    /\ call.pad_length = Some(default_length(Len(OldAlphabet)))
    /\ ret # Expected(OldAlphabet, call)
    /\ ret # Expected(NewAlphabet, call)


====
